---- MODULE Spec2Model ----
(***************************************************************************)
(* The org.bluez.Service1 plugin (plugins/service.c, the revision with     *)
(* Connect/Disconnect and the State property): the list of service_data,   *)
(* the two pending D-Bus messages of each entry, the state callback and    *)
(* the property getter.                                                    *)
(*                                                                         *)
(* The plugin runs on one main loop.  The only place where another of its  *)
(* handlers can run while one is still on the stack is the call into       *)
(* btd_service_connect() / btd_service_disconnect(), from which the        *)
(* service may invoke the state callback; the two method handlers are      *)
(* therefore split at that call (variable call), everything else is one    *)
(* atomic action per handler.                                              *)
(***************************************************************************)
EXTENDS Integers, Sequences, FiniteSets, TLC

\* ---------------------------------------------------------------- bounds
MaxTokens == 3      \* D-Bus method calls received in a run
MaxErrno == 1       \* errno values 1..MaxErrno the service may report
MaxNested == 2      \* state callbacks run inside one btd_service_(dis)connect
MaxLabelErr == 2    \* |btd_service_get_error()| when data_get_state is probed

\* ------------------------------------------------------------ vocabulary
Services == {"s1"}
Tokens == 1..MaxTokens
NULL == 0
ZERO == "ZERO"      \* the state field as g_new0() leaves it

UNAVAILABLE == "UNAVAILABLE"
DISCONNECTED == "DISCONNECTED"
CONNECTING == "CONNECTING"
CONNECTED == "CONNECTED"
DISCONNECTING == "DISCONNECTING"
States == {UNAVAILABLE, DISCONNECTED, CONNECTING, CONNECTED, DISCONNECTING}

ErrCodes == {0} \cup {-e : e \in 1..MaxErrno}

\* a btd_service_state_t value that is none of the five enumerators
OtherState == "OTHER"
\* the values of the int btd_service_get_error() returns
LabelErrs == (0 - MaxLabelErr)..MaxLabelErr
NoProbe == [state |-> UNAVAILABLE, reconnecting |-> FALSE, err |-> 0,
            label |-> "none"]

\* What reading a message whose last reference is gone may do: the memory
\* still holds the message, or the process dies.  Either way the behaviour
\* of the process is undefined from then on and is not followed further.
UBRead == {"intact", "crash"}

NoCall == [op |-> "none", service |-> "none", msg |-> NULL,
           nested |-> 0]

VARIABLES
    services,    \* GSList *services: sequence of service_data, head first
    registered,  \* services whose Service1 interface is registered with gdbus
    svc,         \* btd_service: state, err, reconnecting of every service
    refcnt,      \* reference count of every method call message
    method,      \* the method each received message calls ("none" before)
    nextTok,     \* the next message to arrive
    replies,     \* the number of replies sent to every method call
    out,         \* messages and signals sent by the last handler, in order
    gdbus,       \* interfaces the last handler registered and unregistered
    call,        \* the method handler that is inside btd_service_(dis)connect
    last,        \* the handler that ran last, its service, and for the
                 \* second half of a method handler the value returned
                 \* by btd_service_connect / btd_service_disconnect, for
                 \* the callback 1 when g_dbus_register_interface failed
    accepted,    \* method calls whose handler returned NULL (reply deferred)
    abandoned,   \* pending messages dropped by data_free
    undefined,   \* a freed message was used: undefined behaviour
    exited,      \* service_exit has run
    probe        \* one evaluation of data_get_state: what the service
                 \* returned to it and the string it returned

vars == <<services, registered, svc, refcnt, method, nextTok, replies, out,
          gdbus, call, last, accepted, abandoned, undefined, exited, probe>>

\* --------------------------------------------------------------- replies
MethodReturn == [name |-> "MethodReturn", text |-> ""]
InProgress == [name |-> "InProgress", text |-> "In Progress"]

strerror(n) ==
    IF n = 0 THEN "Success"
    ELSE IF n = 1 THEN "Operation not permitted"
    ELSE IF n = 2 THEN "No such file or directory"
    ELSE IF n = 3 THEN "No such process"
    ELSE "Unknown error"

Failed(text) == [name |-> "Failed", text |-> text]

\* ------------------------------------------------ the machine, as a value
\* The handlers below are functions of the part of the state they change.
Machine ==
    [services |-> services, registered |-> registered, refcnt |-> refcnt,
     replies |-> replies, out |-> <<>>, gdbus |-> <<>>,
     abandoned |-> abandoned, undefined |-> FALSE]

Undefined(m) == [m EXCEPT !.undefined = TRUE]

\* dbus_message_ref
dbus_message_ref(m, t) ==
    IF m.undefined THEN m ELSE [m EXCEPT !.refcnt[t] = @ + 1]

\* dbus_message_unref; undefined on a message that is already freed
dbus_message_unref(m, t) ==
    IF m.undefined THEN m
    ELSE IF m.refcnt[t] > 0 THEN [m EXCEPT !.refcnt[t] = @ - 1]
    ELSE Undefined(m)

\* Build a reply to message t and send it.  Building it reads t; when t is
\* already freed the reply goes out (ubR = "intact") or not.
g_dbus_send_message(m, t, r, ubR) ==
    IF m.undefined THEN m
    ELSE LET sent == [m EXCEPT !.replies[t] = @ + 1,
                               !.out = Append(@, [ev |-> "reply",
                                                   token |-> t,
                                                   reply |-> r])]
         IN IF m.refcnt[t] > 0 THEN sent
            ELSE IF ubR = "intact" THEN Undefined(sent)
            ELSE Undefined(m)

g_dbus_emit_property_changed(m, service) ==
    IF m.undefined THEN m
    ELSE [m EXCEPT !.out = Append(@, [ev |-> "signal", token |-> NULL,
                                       reply |-> [name |-> "State",
                                                  text |-> service]])]

set_connect(m, i, v) ==
    IF m.undefined THEN m ELSE [m EXCEPT !.services[i].connect = v]

set_disconnect(m, i, v) ==
    IF m.undefined THEN m ELSE [m EXCEPT !.services[i].disconnect = v]

set_state(m, i, v) ==
    IF m.undefined THEN m ELSE [m EXCEPT !.services[i].state = v]

\* -------------------------------------------------------------- registry
\* find_data: the position of the first entry for service, 0 for NULL
find_data(list, service) ==
    IF \E i \in 1..Len(list) : list[i].service = service
    THEN CHOOSE i \in 1..Len(list) :
            /\ list[i].service = service
            /\ \A j \in 1..(i - 1) : list[j].service # service
    ELSE 0

\* g_slist_remove: the list without its element at position i
g_slist_remove(list, i) ==
    [j \in 1..(Len(list) - 1) |-> IF j < i THEN list[j] ELSE list[j + 1]]

\* data_free answering the pending messages before it drops them
data_free_replies(m, data) ==
    LET m1 == IF data.connect # NULL
              THEN dbus_message_unref(
                       g_dbus_send_message(m, data.connect,
                                           Failed(strerror(0)), "intact"),
                       data.connect)
              ELSE m
        m2 == IF data.disconnect # NULL
              THEN dbus_message_unref(
                       g_dbus_send_message(m1, data.disconnect,
                                           Failed(strerror(0)), "intact"),
                       data.disconnect)
              ELSE m1
        dropped == {t \in {data.connect, data.disconnect} : t # NULL}
    IN IF m2.undefined THEN m2
       ELSE [m2 EXCEPT !.abandoned = @ \cup dropped]

\* data_free: drop the references to the pending messages; no reply is sent.
data_free(m, data) ==
    LET m1 == IF data.connect # NULL
              THEN dbus_message_unref(m, data.connect) ELSE m
        m2 == IF data.disconnect # NULL
              THEN dbus_message_unref(m1, data.disconnect) ELSE m1
        dropped == {t \in {data.connect, data.disconnect} : t # NULL}
    IN IF m2.undefined THEN m2
       ELSE [m2 EXCEPT !.abandoned = @ \cup dropped]

\* data_remove without the g_dbus_unregister_interface
data_remove_keeps_interface(m, i) ==
    [m EXCEPT !.services = g_slist_remove(@, i)]

\* data_remove: unlink the entry, unregister its interface; gdbus then calls
\* the destroy callback given at registration, data_free.
data_remove(m, i) ==
    LET data == m.services[i]
        m1 == [m EXCEPT !.services = g_slist_remove(@, i),
                        !.registered = @ \ {data.service},
                        !.gdbus = Append(@, [op |-> "unregister",
                                             service |-> data.service])]
    IN data_free(m1, data)

\* service_get_data without the find_data lookup
service_get_data_always_creates(m, service, regOK) ==
    IF ~regOK THEN m
    ELSE [m EXCEPT !.services =
                       <<[service |-> service, state |-> ZERO,
                          connect |-> NULL, disconnect |-> NULL]>> \o @,
                   !.registered = @ \cup {service},
                   !.gdbus = Append(@, [op |-> "register",
                                        service |-> service])]

\* service_get_data linking the new entry although registration failed
service_get_data_ignores_failure(m, service, regOK) ==
    IF find_data(m.services, service) # 0 THEN m
    ELSE [m EXCEPT !.services =
                       <<[service |-> service, state |-> ZERO,
                          connect |-> NULL, disconnect |-> NULL]>> \o @]

\* service_get_data: the entry of service, created and registered when there
\* is none; regOK is the result of g_dbus_register_interface.
service_get_data(m, service, regOK) ==
    IF find_data(m.services, service) # 0 THEN m
    ELSE IF ~regOK THEN m
    ELSE [m EXCEPT !.services =
                       <<[service |-> service, state |-> ZERO,
                          connect |-> NULL, disconnect |-> NULL]>> \o @,
                   !.registered = @ \cup {service},
                   !.gdbus = Append(@, [op |-> "register",
                                        service |-> service])]

\* ----------------------------------------------------------- state label
\* data_get_state testing err # 0 where the code tests err < 0
data_get_state_nonzero(state, reconnecting, err) ==
    IF state = UNAVAILABLE THEN "unavailable"
    ELSE IF state = DISCONNECTED
         THEN IF reconnecting THEN "reconnecting"
              ELSE IF err # 0 THEN "error" ELSE "disconnected"
    ELSE IF state = CONNECTING
         THEN IF reconnecting THEN "reconnecting" ELSE "connecting"
    ELSE IF state = CONNECTED THEN "connected"
    ELSE IF state = DISCONNECTING THEN "disconnecting"
    ELSE "unknown"

\* data_get_state: the label of (state, reconnecting, err)
data_get_state(state, reconnecting, err) ==
    IF state = UNAVAILABLE THEN "unavailable"
    ELSE IF state = DISCONNECTED
         THEN IF reconnecting THEN "reconnecting"
              ELSE IF err < 0 THEN "error" ELSE "disconnected"
    ELSE IF state = CONNECTING
         THEN IF reconnecting THEN "reconnecting" ELSE "connecting"
    ELSE IF state = CONNECTED THEN "connected"
    ELSE IF state = DISCONNECTING THEN "disconnecting"
    ELSE "unknown"

Label(s) == data_get_state(svc[s].state, svc[s].reconnecting, svc[s].err)

\* ------------------------------------------------------------ completion
\* service_connected completing a pending Disconnect as well
service_connected_resolves_disconnect(m, i, ubR) ==
    LET data == m.services[i]
        m1 == IF data.connect = NULL THEN m
              ELSE set_connect(
                       dbus_message_unref(
                           g_dbus_send_message(m, data.connect,
                                               MethodReturn, ubR),
                           data.connect),
                       i, NULL)
    IN IF m1.undefined \/ data.disconnect = NULL THEN m1
       ELSE set_disconnect(
                dbus_message_unref(
                    g_dbus_send_message(m1, data.disconnect,
                                        MethodReturn, ubR),
                    data.disconnect),
                i, NULL)

\* service_connected without the final data->connect = NULL
service_connected_keeps_slot(m, i, ubR) ==
    LET data == m.services[i] IN
    IF data.connect = NULL THEN m
    ELSE dbus_message_unref(
             g_dbus_send_message(m, data.connect, MethodReturn, ubR),
             data.connect)

service_connected(m, i, ubR) ==
    LET data == m.services[i] IN
    IF data.connect = NULL THEN m
    ELSE set_connect(
             dbus_message_unref(
                 g_dbus_send_message(m, data.connect, MethodReturn, ubR),
                 data.connect),
             i, NULL)

\* service_disconnected; err is btd_service_get_error().  The first branch
\* assigns data->connect, not data->disconnect (line 555).
service_disconnected(m, i, err, ubR) ==
    LET data == m.services[i]
        m1 == IF data.disconnect # NULL
              THEN set_connect(
                       dbus_message_unref(
                           g_dbus_send_message(m, data.disconnect,
                                               MethodReturn, ubR),
                           data.disconnect),
                       i, NULL)
              ELSE m
        d1 == m1.services[i]
    IN IF m1.undefined \/ d1.connect = NULL THEN m1
       ELSE set_connect(
                dbus_message_unref(
                    g_dbus_send_message(m1, d1.connect,
                                        Failed(strerror(-err)), ubR),
                    d1.connect),
                i, NULL)

\* service_cb treating unavailable like any other state
service_cb_switch_keeps_unavailable(m, i, new_state, err, ubR) ==
    LET service == m.services[i].service
        m1 == IF new_state = CONNECTED THEN service_connected(m, i, ubR)
              ELSE IF new_state = DISCONNECTED
                   THEN service_disconnected(m, i, err, ubR)
              ELSE m
    IN IF m1.undefined THEN m1
       ELSE IF m1.services[i].state # new_state
            THEN g_dbus_emit_property_changed(m1, service)
       ELSE m1

\* service_cb emitting the signal before it completes the pending calls
service_cb_switch_emits_first(m, i, new_state, err, ubR) ==
    LET service == m.services[i].service
        m0 == IF m.services[i].state # new_state
              THEN g_dbus_emit_property_changed(m, service)
              ELSE m
    IN IF new_state = UNAVAILABLE THEN data_remove(m, i)
       ELSE IF new_state = CONNECTED THEN service_connected(m0, i, ubR)
       ELSE IF new_state = DISCONNECTED
            THEN service_disconnected(m0, i, err, ubR)
       ELSE m0

\* service_cb after service_get_data returned the entry at position i:
\* new_state is also what btd_service_get_state() returns during the call.
service_cb_switch(m, i, new_state, err, ubR) ==
    LET service == m.services[i].service
        m1 == IF new_state = CONNECTED THEN service_connected(m, i, ubR)
              ELSE IF new_state = DISCONNECTED
                   THEN service_disconnected(m, i, err, ubR)
              ELSE m
    IN IF new_state = UNAVAILABLE THEN data_remove(m, i)
       ELSE IF m1.undefined THEN m1
       ELSE IF m1.services[i].state # new_state
            THEN g_dbus_emit_property_changed(m1, service)
       ELSE m1

\* ------------------------------------------------------------ the actions
Running == ~undefined /\ ~exited

Commit(m) ==
    /\ services' = m.services
    /\ registered' = m.registered
    /\ refcnt' = m.refcnt
    /\ replies' = m.replies
    /\ out' = m.out
    /\ gdbus' = m.gdbus
    /\ abandoned' = m.abandoned
    /\ undefined' = m.undefined

\* The choice of what undefined behaviour does is offered only where a freed
\* message can be touched: by the entry of service or by the running handler.
Dangling(service) ==
    \/ \E i \in 1..Len(services) :
          /\ services[i].service = service
          /\ \E t \in {services[i].connect, services[i].disconnect} :
                t # NULL /\ refcnt[t] <= 1
    \/ call.msg # NULL /\ refcnt[call.msg] <= 1

UBMatters(service, ubR) ==
    ubR = "crash" => Dangling(service)

\* The service changes state and runs the callback (old_state # new_state);
\* new_state, err and reconnecting are what btd_service_get_state,
\* btd_service_get_error and btd_service_is_reconnecting return from then on.
\* err and reconnecting are kept at 0 and FALSE in the states in which the
\* plugin never reads them.  The callback can run inside a call of
\* btd_service_(dis)connect of the same service, which does not go away
\* during its own call.
service_cb(service, new_state, err, reconnecting, regOK, ubR) ==
    /\ Running
    /\ new_state # svc[service].state
    /\ ~regOK => find_data(services, service) = 0
    /\ UBMatters(service, ubR)
    /\ call.op # "none" => /\ call.service = service
                            /\ new_state # UNAVAILABLE
                            /\ call.nested < MaxNested
    /\ err # 0 => new_state = DISCONNECTED
    /\ reconnecting => new_state \in {DISCONNECTED, CONNECTING}
    /\ svc' = [svc EXCEPT ![service] = [state |-> new_state, err |-> err,
                                        reconnecting |-> reconnecting]]
    /\ LET m1 == service_get_data(Machine, service, regOK)
           i == find_data(m1.services, service)
       IN Commit(IF i = 0 THEN m1
                 ELSE service_cb_switch(m1, i, new_state, err, ubR))
    /\ call' = IF call.op = "none" THEN call
               ELSE [call EXCEPT !.nested = @ + 1]
    /\ last' = [op |-> "service_cb", service |-> service,
                arg |-> IF regOK THEN 0 ELSE 1]
    /\ UNCHANGED <<probe, method, nextTok, accepted, exited>>

\* the busy check of Connect made on the other slot
connect_in_progress_other_slot(data) == data.disconnect # NULL

\* the busy checks of the two method handlers (lines 292 and 271)
connect_in_progress(data) == data.connect # NULL

disconnect_in_progress(data) == data.disconnect # NULL

\* btd_service_connect and btd_service_disconnect report a synchronous
\* rejection (err # 0) only when they started nothing: a call during which
\* the state callback ran returns 0.
\*
\* A method call arrives: libdbus holds one reference to the message while
\* the handler runs and drops it when the handler has returned.
Arrive(m, t) == [m EXCEPT !.refcnt[t] = 1]

\* service_connect up to the call of btd_service_connect (lines 289-295)
service_connect(service) ==
    /\ Running
    /\ call.op = "none"
    /\ service \in registered
    /\ nextTok <= MaxTokens
    /\ LET t == nextTok
           i == find_data(services, service)
           m == Arrive(Machine, t)
       IN /\ i # 0
          /\ method' = [method EXCEPT ![t] = "Connect"]
          /\ nextTok' = t + 1
          /\ IF connect_in_progress(services[i])
             THEN /\ Commit(dbus_message_unref(
                        g_dbus_send_message(m, t, InProgress, "intact"), t))
                  /\ call' = call
             ELSE /\ Commit(m)
                  /\ call' = [op |-> "connect", service |-> service,
                              msg |-> t, nested |-> 0]
    /\ last' = [op |-> "service_connect", service |-> service, arg |-> 0]
    /\ UNCHANGED <<probe, svc, accepted, exited>>

\* service_connect resetting the other slot when it stores the message
service_connect_finish_clears_disconnect(m, i, t, err, ubR) ==
    IF err < 0
    THEN g_dbus_send_message(m, t, Failed(strerror(-err)), ubR)
    ELSE set_disconnect(set_connect(dbus_message_ref(m, t), i, t), i, NULL)

\* service_connect storing the message whatever btd_service_connect returned
service_connect_finish_stores_first(m, i, t, err, ubR) ==
    LET m1 == set_connect(dbus_message_ref(m, t), i, t) IN
    IF err < 0
    THEN g_dbus_send_message(m1, t, Failed(strerror(-err)), ubR)
    ELSE m1

\* service_connect after btd_service_connect returned err (lines 296-301)
service_connect_finish(m, i, t, err, ubR) ==
    IF err < 0
    THEN g_dbus_send_message(m, t, Failed(strerror(-err)), ubR)
    ELSE set_connect(dbus_message_ref(m, t), i, t)

\* service_disconnect after btd_service_disconnect returned err
\* (lines 277-283)
service_disconnect_finish(m, i, t, err, ubR) ==
    IF err = 0 THEN m
    ELSE g_dbus_send_message(
             set_disconnect(
                 dbus_message_unref(m, m.services[i].disconnect), i, NULL),
             t, Failed(strerror(-err)), ubR)

\* service_connect from the return of btd_service_connect (lines 296-301)
service_connect_return(err, ubR) ==
    /\ Running
    /\ call.op = "connect"
    /\ err < 0 => call.nested = 0
    /\ UBMatters(call.service, ubR)
    /\ LET t == call.msg
           i == find_data(services, call.service)
           m == Machine
       IN /\ Commit(dbus_message_unref(
                    service_connect_finish(m, i, t, err, ubR), t))
          /\ accepted' = IF err < 0 THEN accepted ELSE accepted \cup {t}
    /\ call' = NoCall
    /\ last' = [op |-> "service_connect_return", service |-> call.service,
                arg |-> err]
    /\ UNCHANGED <<probe, svc, method, nextTok, exited>>

\* service_disconnect up to the call of btd_service_disconnect
\* (lines 268-276): the message is stored before the call.
service_disconnect(service) ==
    /\ Running
    /\ call.op = "none"
    /\ service \in registered
    /\ nextTok <= MaxTokens
    /\ LET t == nextTok
           i == find_data(services, service)
           m == Arrive(Machine, t)
       IN /\ i # 0
          /\ method' = [method EXCEPT ![t] = "Disconnect"]
          /\ nextTok' = t + 1
          /\ IF disconnect_in_progress(services[i])
             THEN /\ Commit(dbus_message_unref(
                        g_dbus_send_message(m, t, InProgress, "intact"), t))
                  /\ call' = call
             ELSE /\ Commit(set_disconnect(dbus_message_ref(m, t), i, t))
                  /\ call' = [op |-> "disconnect", service |-> service,
                              msg |-> t, nested |-> 0]
    /\ last' = [op |-> "service_disconnect", service |-> service,
                arg |-> 0]
    /\ UNCHANGED <<probe, svc, accepted, exited>>

\* service_disconnect from the return of btd_service_disconnect
\* (lines 277-283)
service_disconnect_return(err, ubR) ==
    /\ Running
    /\ call.op = "disconnect"
    /\ err # 0 => call.nested = 0
    /\ UBMatters(call.service, ubR)
    /\ LET t == call.msg
           i == find_data(services, call.service)
           m == Machine
       IN /\ Commit(dbus_message_unref(
                    service_disconnect_finish(m, i, t, err, ubR), t))
          /\ accepted' = IF err = 0 THEN accepted \cup {t} ELSE accepted
    /\ call' = NoCall
    /\ last' = [op |-> "service_disconnect_return",
                service |-> call.service, arg |-> err]
    /\ UNCHANGED <<probe, svc, method, nextTok, exited>>

\* get_state: the State property is read (by a client, or by gdbus when it
\* sends the PropertiesChanged signal); data_get_state stores the state.
get_state(service) ==
    /\ Running
    /\ call.op = "none"
    /\ service \in registered
    /\ LET i == find_data(services, service)
       IN /\ i # 0
          /\ services' = [services EXCEPT ![i].state = svc[service].state]
    /\ out' = <<[ev |-> "get", token |-> NULL,
                 reply |-> [name |-> Label(service), text |-> service]]>>
    /\ gdbus' = <<>>
    /\ last' = [op |-> "get_state", service |-> service, arg |-> 0]
    /\ UNCHANGED <<probe, registered, svc, refcnt, method, nextTok, replies, call,
                   accepted, abandoned, undefined, exited>>

\* g_slist_free_full(services, data_free): data_free on every entry
RECURSIVE free_all(_, _)
free_all(m, list) ==
    IF list = <<>> THEN m
    ELSE free_all(data_free(m, Head(list)), Tail(list))

\* service_exit: the callback is removed and every entry is freed; the
\* interfaces stay registered and services keeps pointing at the freed list.
service_exit ==
    /\ Running
    /\ call.op = "none"
    /\ Commit(free_all(Machine, services))
    /\ exited' = TRUE
    /\ last' = [op |-> "service_exit", service |-> "none", arg |-> 0]
    /\ UNCHANGED <<probe, svc, method, nextTok, call, accepted>>

InitPlugin ==
    /\ services = <<>>
    /\ registered = {}
    /\ svc = [s \in Services |-> [state |-> UNAVAILABLE, err |-> 0,
                                  reconnecting |-> FALSE]]
    /\ refcnt = [t \in Tokens |-> 0]
    /\ method = [t \in Tokens |-> "none"]
    /\ nextTok = 1
    /\ replies = [t \in Tokens |-> 0]
    /\ out = <<>>
    /\ gdbus = <<>>
    /\ call = NoCall
    /\ last = [op |-> "service_init", service |-> "none", arg |-> 0]
    /\ accepted = {}
    /\ abandoned = {}
    /\ undefined = FALSE
    /\ exited = FALSE

Init == InitPlugin /\ probe = NoProbe

\* the state callback, from the main loop or from inside a call
Callback ==
    \E s \in Services, st \in States, e \in ErrCodes, r \in BOOLEAN,
       ok \in BOOLEAN, ubR \in UBRead :
       service_cb(s, st, e, r, ok, ubR)

\* everything the main loop dispatches to the plugin besides the callback
Dispatch ==
    \/ \E s \in Services : service_connect(s)
    \/ \E e \in ErrCodes, ubR \in UBRead : service_connect_return(e, ubR)
    \/ \E s \in Services : service_disconnect(s)
    \/ \E e \in ErrCodes, ubR \in UBRead :
          service_disconnect_return(e, ubR)
    \/ \E s \in Services : get_state(s)
    \/ service_exit

Next == Callback \/ Dispatch

Spec == Init /\ [][Next]_vars

\* The same program with a service that runs its callbacks from the main
\* loop only, never from inside btd_service_connect / btd_service_disconnect.
NextSeq == (call.op = "none" /\ Callback) \/ Dispatch

SpecSeq == Init /\ [][NextSeq]_vars

\* data_get_state on its own, for every state, reconnecting flag and error
\* the service can hand it.
InitLabel ==
    /\ InitPlugin
    /\ probe \in [state : States \cup {OtherState}, reconnecting : BOOLEAN,
                  err : LabelErrs, label : {"none"}]

read_label ==
    /\ probe.label = "none"
    /\ probe' = [probe EXCEPT !.label = data_get_state(probe.state,
                                                       probe.reconnecting,
                                                       probe.err)]
    /\ UNCHANGED <<services, registered, svc, refcnt, method, nextTok,
                   replies, out, gdbus, call, last, accepted, abandoned,
                   undefined, exited>>

NextLabel == read_label

SpecLabel == InitLabel /\ [][NextLabel]_vars

\* the entry of a service, when there is one
HasData(list, service) == find_data(list, service) # 0
DataOf(list, service) == list[find_data(list, service)]

\* The program with a service that keeps its promises: it never becomes
\* unavailable, the plugin is not unloaded, every call of
\* btd_service_connect / btd_service_disconnect returns, and as long as an
\* accepted Connect (Disconnect) has no reply the service keeps delivering
\* connected or disconnected (disconnected) notifications.
Unanswered(s, m) ==
    \E t \in accepted :
        method[t] = m /\ replies[t] = 0 /\ HasData(services, s)

Completing(s, states) ==
    \E st \in states, e \in ErrCodes, r \in BOOLEAN, ok \in BOOLEAN,
       ubR \in UBRead :
       service_cb(s, st, e, r, ok, ubR)

CallbackLive ==
    \E s \in Services, st \in States \ {UNAVAILABLE}, e \in ErrCodes,
       r \in BOOLEAN, ok \in BOOLEAN, ubR \in UBRead :
       service_cb(s, st, e, r, ok, ubR)

DispatchLive ==
    \/ \E s \in Services : service_connect(s)
    \/ \E e \in ErrCodes, ubR \in UBRead : service_connect_return(e, ubR)
    \/ \E s \in Services : service_disconnect(s)
    \/ \E e \in ErrCodes, ubR \in UBRead :
          service_disconnect_return(e, ubR)
    \/ \E s \in Services : get_state(s)

NextLive == (call.op = "none" /\ CallbackLive) \/ DispatchLive

Returns ==
    \E e \in ErrCodes, ubR \in UBRead :
       service_connect_return(e, ubR) \/ service_disconnect_return(e, ubR)

SpecLive ==
    /\ Init
    /\ [][NextLive]_vars
    /\ WF_vars(Returns)
    /\ \A s \in Services :
          /\ \/ []<>(~Unanswered(s, "Connect"))
             \/ []<><<call.op = "none"
                       /\ Completing(s, {CONNECTED, DISCONNECTED})>>_vars
          /\ \/ []<>(~Unanswered(s, "Disconnect"))
             \/ []<><<call.op = "none"
                       /\ Completing(s, {DISCONNECTED})>>_vars

\* ------------------------------------------------------ reading the state
\* the handler that ran in this step
Ran(op) == last'.op = op
Notified(service, state) ==
    /\ Ran("service_cb")
    /\ last'.service = service
    /\ svc'[service].state = state

Replied(o, t, r) ==
    \E k \in 1..Len(o) : o[k] = [ev |-> "reply", token |-> t, reply |-> r]
RepliedTo(o, t) == \E k \in 1..Len(o) : o[k].ev = "reply" /\ o[k].token = t
NoReply(o) == \A k \in 1..Len(o) : o[k].ev # "reply"
Announced(o) == \E k \in 1..Len(o) : o[k].ev = "signal"

\* ---------------------------------------------------------------- claims

\* C1: every method call (Connect or Disconnect) is sent at most one reply
\* in total, whatever notifications and requests follow its first reply.
C1_AtMostOneReply == \A t \in Tokens : replies[t] <= 1

\* C2: a disconnected notification processed while a Disconnect is pending
\* answers it with a method return and leaves the disconnect slot empty (so
\* that the next Disconnect is not rejected with InProgress).
C2_DisconnectResolved ==
    [][\A s \in Services :
          (/\ Notified(s, DISCONNECTED)
           /\ HasData(services, s)
           /\ DataOf(services, s).disconnect # NULL)
          => /\ Replied(out', DataOf(services, s).disconnect, MethodReturn)
             /\ HasData(services', s)
             /\ DataOf(services', s).disconnect = NULL]_vars

\* C3: a disconnected notification processed while a Connect and a
\* Disconnect are pending answers both in that notification: the Disconnect
\* with a method return, the Connect with Failed(strerror of the stored
\* error), and leaves both slots empty.
C3_BothResolved ==
    [][\A s \in Services :
          (/\ Notified(s, DISCONNECTED)
           /\ HasData(services, s)
           /\ DataOf(services, s).connect # NULL
           /\ DataOf(services, s).disconnect # NULL)
          => /\ Replied(out', DataOf(services, s).disconnect, MethodReturn)
             /\ Replied(out', DataOf(services, s).connect,
                        Failed(strerror(-svc'[s].err)))
             /\ HasData(services', s)
             /\ DataOf(services', s).connect = NULL
             /\ DataOf(services', s).disconnect = NULL]_vars

\* C4: a pending Connect is answered with a method return exactly when a
\* connected notification is processed: that notification answers it and
\* empties the connect slot, a connecting notification answers nothing and
\* leaves the slot as it is, no other step sends a method return to a
\* Connect, and a Connect that finds the slot empty is not rejected.
C4_ConnectResolvedAtConnected ==
    [][\A s \in Services :
          /\ (Notified(s, CONNECTED) /\ HasData(services, s)
              /\ DataOf(services, s).connect # NULL)
             => Replied(out', DataOf(services, s).connect, MethodReturn)
          /\ (Notified(s, CONNECTED) /\ HasData(services', s))
             => DataOf(services', s).connect = NULL
          /\ (Notified(s, CONNECTING) /\ HasData(services, s))
             => /\ NoReply(out')
                /\ HasData(services', s)
                /\ DataOf(services', s).connect = DataOf(services, s).connect
          /\ \A t \in Tokens :
                (method'[t] = "Connect" /\ Replied(out', t, MethodReturn))
                => /\ Notified(s, CONNECTED)
                   /\ HasData(services, s)
                   /\ DataOf(services, s).connect = t
          /\ (Ran("service_connect") /\ last'.service = s
              /\ DataOf(services, s).connect = NULL)
             => /\ NoReply(out')
                /\ call'.op = "connect"]_vars

C4_Witness ==
    \E s \in Services, t \in Tokens :
        /\ last.op = "service_cb" /\ last.service = s
        /\ svc[s].state = CONNECTED
        /\ method[t] = "Connect" /\ t \in accepted
        /\ out[1] = [ev |-> "reply", token |-> t, reply |-> MethodReturn]
        /\ replies[t] = 1
        /\ HasData(services, s) /\ DataOf(services, s).connect = NULL

\* C5: a Connect arriving while the connect slot is set is answered
\* InProgress in the same step, btd_service_connect is not called and no
\* slot changes; likewise a Disconnect while the disconnect slot is set.
C5_SecondRequestRejected ==
    [][\A s \in Services :
          /\ (Ran("service_connect") /\ last'.service = s
              /\ DataOf(services, s).connect # NULL)
             => /\ out' = <<[ev |-> "reply", token |-> nextTok,
                             reply |-> InProgress]>>
                /\ call'.op = "none"
                /\ services' = services
                /\ accepted' = accepted
          /\ (Ran("service_disconnect") /\ last'.service = s
              /\ DataOf(services, s).disconnect # NULL)
             => /\ out' = <<[ev |-> "reply", token |-> nextTok,
                             reply |-> InProgress]>>
                /\ call'.op = "none"
                /\ services' = services
                /\ accepted' = accepted]_vars

C5_Witness ==
    \E s \in Services, t1, t2 \in Tokens :
        /\ t1 # t2
        /\ last.op = "service_connect" /\ last.service = s
        /\ out = <<[ev |-> "reply", token |-> t2, reply |-> InProgress]>>
        /\ method[t2] = "Connect"
        /\ call.op = "none"
        /\ DataOf(services, s).connect = t1
        /\ t1 \in accepted /\ replies[t1] = 0

\* C6: for every notification that is not unavailable, the State signal is
\* emitted if and only if the label computed for it differs from the label
\* of the previous notification of the same entry (a new entry has none).
C6_AnnounceIffLabelChanged ==
    [][\A s \in Services :
          (/\ Ran("service_cb") /\ last'.service = s
           /\ svc'[s].state # UNAVAILABLE
           /\ HasData(services', s)
           /\ ~undefined')
          => (Announced(out')
              <=> (~HasData(services, s) \/ Label(s)' # Label(s)))]_vars

\* C7: when btd_service_connect returns an error, Connect is answered Failed
\* with its message in the same step and the entry is unchanged (connect
\* slot empty, nothing emitted, the call not accepted); when
\* btd_service_disconnect returns an error, Disconnect is answered Failed
\* and the disconnect slot is empty afterwards.
C7_SyncFailure ==
    [][\A s \in Services :
          /\ (Ran("service_connect_return") /\ last'.service = s
              /\ last'.arg < 0)
             => /\ out' = <<[ev |-> "reply", token |-> call.msg,
                             reply |-> Failed(strerror(-last'.arg))]>>
                /\ services' = services
                /\ DataOf(services', s).connect = NULL
                /\ call.msg \notin accepted'
                /\ call'.op = "none"
          /\ (Ran("service_disconnect_return") /\ last'.service = s
              /\ last'.arg # 0)
             => /\ out' = <<[ev |-> "reply", token |-> call.msg,
                             reply |-> Failed(strerror(-last'.arg))]>>
                /\ DataOf(services', s).disconnect = NULL
                /\ DataOf(services', s).connect = DataOf(services, s).connect
                /\ call.msg \notin accepted'
                /\ call'.op = "none"]_vars

C7_Witness ==
    \E s \in Services, t \in Tokens :
        /\ last.op = "service_connect_return" /\ last.service = s
        /\ last.arg < 0
        /\ out = <<[ev |-> "reply", token |-> t,
                    reply |-> Failed(strerror(-last.arg))]>>
        /\ method[t] = "Connect" /\ t \notin accepted
        /\ DataOf(services, s).connect = NULL
        /\ call.op = "none"

\* C8: an unavailable notification processed while a slot is set removes
\* the entry and sends nothing, and a message dropped that way is never
\* sent a reply afterwards.
C8_UnavailableAbandons ==
    [][/\ \A s \in Services :
             (Notified(s, UNAVAILABLE) /\ HasData(services, s))
             => /\ ~HasData(services', s)
                /\ s \notin registered'
                /\ out' = <<>>
                /\ replies' = replies
       /\ \A t \in abandoned : replies'[t] = replies[t]]_vars

C8_Witness ==
    \E s \in Services, t \in Tokens :
        /\ last.op = "service_cb" /\ last.service = s
        /\ svc[s].state = UNAVAILABLE
        /\ ~HasData(services, s)
        /\ t \in abandoned /\ t \in accepted
        /\ method[t] = "Connect"
        /\ replies[t] = 0

\* C9: a disconnected notification processed while a Connect is pending,
\* with stored error E and the service not reconnecting, answers the Connect
\* with Failed(strerror(-E)), and the label of the new state is error.
C9_ConnectFailedWithError ==
    [][\A s \in Services :
          (/\ Notified(s, DISCONNECTED)
           /\ HasData(services, s)
           /\ DataOf(services, s).connect # NULL
           /\ svc'[s].err # 0
           /\ ~svc'[s].reconnecting)
          => /\ Replied(out', DataOf(services, s).connect,
                        Failed(strerror(-svc'[s].err)))
             /\ Label(s)' = "error"]_vars

\* C10: with a service that never becomes unavailable and keeps delivering
\* completing notifications while a request is unanswered, every accepted
\* Connect and every accepted Disconnect is eventually sent a reply.
C10_AcceptedEventuallyAnswered ==
    \A t \in Tokens : (t \in accepted) ~> (replies[t] > 0)

\* C11 as stated: an unavailable notification for a service that has no
\* entry creates and registers nothing, leaves the list and the registered
\* interfaces as they are, sends no reply and emits no signal.
C11_SecondUnavailableCreatesNothing ==
    [][\A s \in Services :
          (Notified(s, UNAVAILABLE) /\ ~HasData(services, s))
          => /\ gdbus' = <<>>
             /\ services' = services
             /\ registered' = registered
             /\ replies' = replies
             /\ out' = <<>>]_vars

\* C11 as amended: an unavailable notification for a service that has no
\* entry leaves the list and the registered interfaces as they were, sends
\* no reply and emits no signal; the entry service_get_data creates and
\* registers for it (when registration succeeds) is removed and unregistered
\* again in that same notification.
C11_SecondUnavailableNetNoop ==
    [][\A s \in Services :
          (Notified(s, UNAVAILABLE) /\ ~HasData(services, s))
          => /\ gdbus' \in {<<>>, <<[op |-> "register", service |-> s],
                                   [op |-> "unregister", service |-> s]>>}
             /\ services' = services
             /\ registered' = registered
             /\ replies' = replies
             /\ out' = <<>>]_vars

C11_Witness ==
    \E s \in Services :
        /\ last.op = "service_cb" /\ last.service = s
        /\ svc[s].state = UNAVAILABLE
        /\ ~HasData(services, s) /\ s \notin registered
        /\ abandoned # {}
        /\ gdbus = <<[op |-> "register", service |-> s],
                     [op |-> "unregister", service |-> s]>>

C13_StoredStateInSync ==
    [][\A s \in Services :
          /\ (Notified(s, DISCONNECTED) \/ Notified(s, CONNECTING)
              \/ Notified(s, CONNECTED) \/ Notified(s, DISCONNECTING))
             /\ HasData(services', s)
             => DataOf(services', s).state = svc'[s].state
          /\ (HasData(services, s) /\ HasData(services', s)
              /\ DataOf(services', s).state # DataOf(services, s).state)
             => Ran("service_cb") /\ Announced(out')]_vars

\* C14: in the messages one notification sends, no State signal comes
\* before a reply to a pending Connect or Disconnect.
C14_RepliesBeforeAnnounce ==
    [][Ran("service_cb")
       => \A j, k \in 1..Len(out') :
             (out'[j].ev = "signal" /\ out'[k].ev = "reply") => k < j]_vars

C14_Witness ==
    \E s \in Services, t \in Tokens :
        /\ last.op = "service_cb" /\ last.service = s
        /\ svc[s].state = DISCONNECTED
        /\ method[t] = "Connect"
        /\ Len(out) = 2
        /\ out[1].ev = "reply" /\ out[1].token = t
        /\ out[1].reply.name = "Failed"
        /\ out[2].ev = "signal"

\* C15 as stated: data_get_state returns unavailable for unavailable; for
\* disconnected reconnecting when the service is reconnecting, else error
\* when the stored error is not zero, else disconnected; for connecting
\* reconnecting when reconnecting, else connecting; connected for connected;
\* disconnecting for disconnecting; unknown for any other value.
C15_LabelTable ==
    probe.label # "none" =>
        probe.label =
            CASE probe.state = UNAVAILABLE -> "unavailable"
              [] probe.state = DISCONNECTED /\ probe.reconnecting
                    -> "reconnecting"
              [] probe.state = DISCONNECTED /\ ~probe.reconnecting
                 /\ probe.err # 0 -> "error"
              [] probe.state = DISCONNECTED /\ ~probe.reconnecting
                 /\ probe.err = 0 -> "disconnected"
              [] probe.state = CONNECTING /\ probe.reconnecting
                    -> "reconnecting"
              [] probe.state = CONNECTING /\ ~probe.reconnecting
                    -> "connecting"
              [] probe.state = CONNECTED -> "connected"
              [] probe.state = DISCONNECTING -> "disconnecting"
              [] OTHER -> "unknown"

\* C15 as amended: the same table with error returned when the stored error
\* is negative, and disconnected when it is zero or positive.
C15_LabelTableNegativeError ==
    probe.label # "none" =>
        probe.label =
            CASE probe.state = UNAVAILABLE -> "unavailable"
              [] probe.state = DISCONNECTED /\ probe.reconnecting
                    -> "reconnecting"
              [] probe.state = DISCONNECTED /\ ~probe.reconnecting
                 /\ probe.err < 0 -> "error"
              [] probe.state = DISCONNECTED /\ ~probe.reconnecting
                 /\ probe.err >= 0 -> "disconnected"
              [] probe.state = CONNECTING /\ probe.reconnecting
                    -> "reconnecting"
              [] probe.state = CONNECTING /\ ~probe.reconnecting
                    -> "connecting"
              [] probe.state = CONNECTED -> "connected"
              [] probe.state = DISCONNECTING -> "disconnecting"
              [] OTHER -> "unknown"

C15_Witness ==
    /\ probe.state = DISCONNECTED /\ ~probe.reconnecting
    /\ probe.err = 1
    /\ probe.label = "disconnected"

\* C16: the disconnect slot of an entry holds a message only when
\* btd_service_disconnect has returned 0 for that message; in particular it
\* is empty while btd_service_disconnect runs.
C16_DisconnectStoredAfterAcceptance ==
    \A s \in Services :
        (HasData(services, s) /\ DataOf(services, s).disconnect # NULL)
        => DataOf(services, s).disconnect \in accepted

\* C17: when the service delivers the connected or disconnected notification
\* from inside btd_service_connect, before the Connect is stored, and
\* btd_service_connect then returns 0, the Connect has exactly one reply and
\* is not left in the connect slot.
C17_ReentrantCompletionAnswered ==
    [][\A s \in Services :
          (/\ Ran("service_connect_return") /\ last'.service = s
           /\ last'.arg = 0
           /\ call.nested > 0
           /\ svc[s].state \in {CONNECTED, DISCONNECTED})
          => /\ replies'[call.msg] = 1
             /\ DataOf(services', s).connect # call.msg]_vars

\* C18: the list never holds two entries for the same service.
C18_OneEntryPerService ==
    \A i, j \in 1..Len(services) :
        services[i].service = services[j].service => i = j

C18_Witness ==
    \E s \in Services :
        /\ last = [op |-> "service_cb", service |-> s, arg |-> 0]
        /\ gdbus = <<>>
        /\ HasData(services, s)
        /\ Len(services) = 1
        /\ abandoned # {}

\* C19: a notification with a state other than unavailable, whose interface
\* registration does not fail, leaves an entry for the service in the list;
\* an entry stays in the list across every Connect, Disconnect, property
\* read and notification other than unavailable; an unavailable notification
\* leaves no entry and emits no State signal.
C19_EntryLifecycle ==
    [][\A s \in Services :
          /\ (Ran("service_cb") /\ last'.service = s /\ last'.arg = 0
              /\ svc'[s].state # UNAVAILABLE)
             => HasData(services', s) /\ s \in registered'
          /\ (HasData(services, s) /\ ~Notified(s, UNAVAILABLE)
              /\ ~Ran("service_exit"))
             => HasData(services', s) /\ s \in registered'
          /\ Notified(s, UNAVAILABLE)
             => /\ ~HasData(services', s)
                /\ s \notin registered'
                /\ ~Announced(out')]_vars

C19_Witness ==
    \E s \in Services :
        /\ last = [op |-> "service_cb", service |-> s, arg |-> 0]
        /\ svc[s].state = UNAVAILABLE
        /\ gdbus = <<[op |-> "unregister", service |-> s]>>
        /\ ~HasData(services, s)
        /\ out = <<>>

\* C20: Connect never changes the disconnect slot and is accepted or
\* rejected by the connect slot alone; Disconnect never changes the connect
\* slot and is accepted or rejected by the disconnect slot alone.
C20_SlotsIndependent ==
    [][\A s \in Services :
          /\ ((Ran("service_connect") \/ Ran("service_connect_return"))
              /\ last'.service = s)
             => DataOf(services', s).disconnect
                   = DataOf(services, s).disconnect
          /\ ((Ran("service_disconnect") \/ Ran("service_disconnect_return"))
              /\ last'.service = s)
             => DataOf(services', s).connect = DataOf(services, s).connect
          /\ (Ran("service_connect") /\ last'.service = s)
             => (call'.op = "connect"
                    <=> DataOf(services, s).connect = NULL)
          /\ (Ran("service_disconnect") /\ last'.service = s)
             => (call'.op = "disconnect"
                    <=> DataOf(services, s).disconnect = NULL)]_vars

\* both slots hold a pending, unanswered message
C20_Witness ==
    \E s \in Services, t1, t2 \in Tokens :
        /\ t1 # t2
        /\ call.op = "none"
        /\ HasData(services, s)
        /\ DataOf(services, s).connect = t1
        /\ DataOf(services, s).disconnect = t2
        /\ {t1, t2} \subseteq accepted
        /\ replies[t1] = 0 /\ replies[t2] = 0
        /\ refcnt[t1] = 1 /\ refcnt[t2] = 1

\* C21: a connecting or disconnecting notification sends no reply and
\* leaves both slots of the entry as they are; a connected notification
\* sends no reply to the Disconnect in the disconnect slot and leaves that
\* slot as it is; and an accepted message leaves the slot of an entry that
\* stays in the list only in a connected or disconnected notification (the
\* connect slot) or a disconnected notification (the disconnect slot).
C21_OnlyCompletionEmptiesSlot ==
    [][\A s \in Services :
          /\ ((Notified(s, CONNECTING) \/ Notified(s, DISCONNECTING))
              /\ HasData(services, s))
             => /\ NoReply(out')
                /\ replies' = replies
                /\ HasData(services', s)
                /\ DataOf(services', s).connect = DataOf(services, s).connect
                /\ DataOf(services', s).disconnect
                      = DataOf(services, s).disconnect
          /\ (Notified(s, CONNECTED) /\ HasData(services, s))
             => /\ HasData(services', s)
                /\ DataOf(services', s).disconnect
                      = DataOf(services, s).disconnect
                /\ DataOf(services, s).disconnect # NULL
                   => ~RepliedTo(out', DataOf(services, s).disconnect)
          /\ (HasData(services, s) /\ HasData(services', s)
              /\ DataOf(services, s).connect \in accepted
              /\ DataOf(services', s).connect # DataOf(services, s).connect)
             => Notified(s, CONNECTED) \/ Notified(s, DISCONNECTED)
          /\ (HasData(services, s) /\ HasData(services', s)
              /\ DataOf(services, s).disconnect \in accepted
              /\ DataOf(services', s).disconnect
                    # DataOf(services, s).disconnect)
             => Notified(s, DISCONNECTED)]_vars

\* a connected notification has answered the Connect and left the pending,
\* unanswered Disconnect in its slot
C21_Witness ==
    \E s \in Services, t1, t2 \in Tokens :
        /\ last.op = "service_cb" /\ last.service = s
        /\ svc[s].state = CONNECTED
        /\ method[t1] = "Connect" /\ method[t2] = "Disconnect"
        /\ {t1, t2} \subseteq accepted
        /\ RepliedTo(out, t1)
        /\ HasData(services, s)
        /\ DataOf(services, s).connect = NULL
        /\ DataOf(services, s).disconnect = t2
        /\ replies[t2] = 0 /\ refcnt[t2] = 1

\* C22: once service_exit has run the list holds no entry, no Service1
\* interface is registered any more, and service_exit has sent no reply to
\* the messages that were pending in the freed entries.
C22_ExitLeavesNothing ==
    exited =>
        /\ services = <<>>
        /\ registered = {}
        /\ NoReply(out)
====
